---- MODULE Spec2Model ----
(***************************************************************************)
(* Dashboard (src/main.py): the alarm controller with its GPIO pin and     *)
(* single-shot stop timers, the two feed clients with the refresh cycle,   *)
(* and the favorites store.                                                *)
(***************************************************************************)
EXTENDS Integers, Sequences, FiniteSets, TLC

VARIABLES
    \* AlarmController and the GPIO pin it drives
    active_time,    \* self.active_time: a time of day, or NoTime for None
    alarm_active,   \* self.alarm_active
    gpio_state,     \* last level written to the pin (MockGPIO.state[pin])
    timers,         \* pending QTimer.singleShot(30000, stop_alarm): remaining seconds, oldest first
    op,             \* the operation that ran last
    matched,        \* the last operation was a check_alarm whose current_time was in the armed minute
    pinHighWrites,  \* GPIO.output(pin, True) calls since the last set_alarm
    emitted,        \* alarm_triggered.emit() calls since the last set_alarm
    userStop,       \* the user called clear_alarm or stop_alarm since the last fire
    userAny,        \* the user called set_alarm, clear_alarm or stop_alarm since the last fire
    \* DashboardWindow: the feed clients and the two list widgets
    token,            \* TodoistClient.token
    api_available,    \* GoogleCalendarClient.api_available
    credentials_file, \* GoogleCalendarClient.credentials_file
    calendar_id,      \* GoogleCalendarClient.calendar_id
    local_zone,       \* the process's local time zone, which astimezone() uses
    todo_list,        \* rows of DashboardWindow.todo_list
    calendar_list,    \* rows of DashboardWindow.calendar_list
    todoFetch,        \* outcome of the last TodoistClient.fetch_today call
    calFetch,         \* outcome of the last GoogleCalendarClient.fetch_today call
    calLoaded,        \* _load_calendar ran in the last refresh cycle
    escaped,          \* the exception that left refresh_data, or None
    \* AlarmFavorites and its file
    fav_file,       \* what is stored at AlarmFavorites.path
    favorites,      \* AlarmFavorites.favorites: two optional strings
    favRaised,      \* the exception that left AlarmFavorites.__init__, or None
    favOp,          \* the favorites operation that ran last
    setIdx,         \* index of the last set_favorite call
    setTime,        \* value of the last set_favorite call
    setSaved,       \* write_text raised nothing in the last set_favorite call
    setOther,       \* get_favorite of the other slot before the last set_favorite call
    reloaded        \* the store was reloaded right after a set_favorite that wrote it

alarmVars == <<active_time, alarm_active, gpio_state, timers, op, matched,
               pinHighWrites, emitted, userStop, userAny>>

feedConfig == <<token, api_available, credentials_file, calendar_id, local_zone>>

feedVars == <<feedConfig, todo_list, calendar_list, todoFetch, calFetch,
              calLoaded, escaped>>

favVars == <<fav_file, favorites, favRaised, favOp, setIdx, setTime, setSaved,
             setOther, reloaded>>

vars == <<alarmVars, feedVars, favVars>>

----------------------------------------------------------------------------
\* Bounds of the model: the hours and minutes the simulated clock and the
\* armed times range over, and the number of stop timers pending at once.
MaxHour == 1
MaxMinute == 1
MaxPending == 2

\* Program constants.
DWELL_MS == 30000
ALARM_TICK_MS == 1000

DwellTicks == DWELL_MS \div ALARM_TICK_MS

TimeOfDay == [hour : 0..MaxHour, minute : 0..MaxMinute]
NoTime == [hour |-> -1, minute |-> -1]

----------------------------------------------------------------------------
\* AlarmController.__init__
AlarmInit ==
    /\ active_time = NoTime
    /\ alarm_active = FALSE
    /\ gpio_state = 0
    /\ timers = <<>>
    /\ op = "init"
    /\ matched = FALSE
    /\ pinHighWrites = 0
    /\ emitted = 0
    /\ userStop = FALSE
    /\ userAny = FALSE

\* AlarmController.set_alarm: the state it writes
set_alarm(alarm_time) ==
    /\ active_time' = alarm_time
    /\ alarm_active' = FALSE
    /\ UNCHANGED <<gpio_state, timers>>

\* clear_alarm that leaves alarm_active as it is
clear_alarm_KeepsActive ==
    /\ active_time' = NoTime
    /\ gpio_state' = 0
    /\ UNCHANGED <<alarm_active, timers>>

\* clear_alarm without the pin write
clear_alarm_NoPinWrite ==
    /\ active_time' = NoTime
    /\ alarm_active' = FALSE
    /\ UNCHANGED <<gpio_state, timers>>

\* AlarmController.clear_alarm
clear_alarm ==
    /\ active_time' = NoTime
    /\ alarm_active' = FALSE
    /\ gpio_state' = 0
    /\ UNCHANGED timers

\* check_alarm's comparison of current_time with the armed time of day
SameMinute(current_time) ==
    /\ active_time # NoTime
    /\ current_time.hour = active_time.hour
    /\ current_time.minute = active_time.minute

\* the fire condition without the alarm_active early return
Fires_NoActiveGuard(current_time) ==
    /\ active_time # NoTime
    /\ current_time.hour = active_time.hour
    /\ current_time.minute = active_time.minute

\* the condition of the fire in check_alarm
Fires(current_time) ==
    /\ active_time # NoTime
    /\ ~alarm_active
    /\ current_time.hour = active_time.hour
    /\ current_time.minute = active_time.minute

\* AlarmController.check_alarm
check_alarm(current_time) ==
    IF Fires(current_time)
    THEN /\ alarm_active' = TRUE
         /\ gpio_state' = 1
         /\ pinHighWrites' = pinHighWrites + 1
         /\ emitted' = emitted + 1
         /\ timers' = Append(timers, DwellTicks)
         /\ userStop' = FALSE
         /\ userAny' = FALSE
         /\ UNCHANGED active_time
    ELSE UNCHANGED <<active_time, alarm_active, gpio_state, timers,
                     pinHighWrites, emitted, userStop, userAny>>

\* stop_alarm that also clears alarm_active (a repeating alarm)
stop_alarm_ClearsActive ==
    /\ gpio_state' = 0
    /\ alarm_active' = FALSE
    /\ UNCHANGED active_time

\* stop_alarm without the pin write
stop_alarm_NoPinWrite ==
    /\ UNCHANGED <<gpio_state, active_time, alarm_active>>

\* AlarmController.stop_alarm
stop_alarm ==
    /\ gpio_state' = 0
    /\ UNCHANGED <<active_time, alarm_active>>

----------------------------------------------------------------------------
\* The user presses "Wecker setzen" (DashboardWindow._set_alarm).
SetAlarm ==
    /\ Len(timers) < MaxPending
    /\ \E alarm_time \in TimeOfDay : set_alarm(alarm_time)
    /\ op' = "set_alarm"
    /\ pinHighWrites' = 0
    /\ emitted' = 0
    /\ userAny' = TRUE
    /\ matched' = FALSE
    /\ UNCHANGED userStop
    /\ UNCHANGED <<feedVars, favVars>>

\* The user presses "Wecker stoppen" (DashboardWindow._clear_alarm).
ClearAlarm ==
    /\ clear_alarm
    /\ op' = "clear_alarm"
    /\ userStop' = TRUE
    /\ userAny' = TRUE
    /\ matched' = FALSE
    /\ UNCHANGED <<pinHighWrites, emitted>>
    /\ UNCHANGED <<feedVars, favVars>>

\* The alarm timer calls check_alarm with the current local time.
CheckAlarm ==
    /\ \E current_time \in TimeOfDay :
          /\ check_alarm(current_time)
          /\ matched' = SameMinute(current_time)
    /\ op' = "check_alarm"
    /\ UNCHANGED <<feedVars, favVars>>

\* stop_alarm called directly.
StopAlarm ==
    /\ stop_alarm
    /\ op' = "stop_alarm"
    /\ userStop' = TRUE
    /\ userAny' = TRUE
    /\ matched' = FALSE
    /\ UNCHANGED <<timers, pinHighWrites, emitted>>
    /\ UNCHANGED <<feedVars, favVars>>

\* A pending single-shot timer is due and calls stop_alarm.
Timeout ==
    /\ timers # <<>>
    /\ Head(timers) = 0
    /\ stop_alarm
    /\ timers' = Tail(timers)
    /\ op' = "timeout"
    /\ matched' = FALSE
    /\ UNCHANGED <<pinHighWrites, emitted, userStop, userAny>>
    /\ UNCHANGED <<feedVars, favVars>>

\* One second passes; a due timer runs before time moves on.
Tick ==
    /\ timers # <<>>
    /\ \A i \in 1..Len(timers) : timers[i] > 0
    /\ timers' = [i \in 1..Len(timers) |-> timers[i] - 1]
    /\ op' = "tick"
    /\ matched' = FALSE
    /\ UNCHANGED <<active_time, alarm_active, gpio_state,
                   pinHighWrites, emitted, userStop, userAny>>
    /\ UNCHANGED <<feedVars, favVars>>

----------------------------------------------------------------------------
\* The feed clients and the refresh cycle.

\* Python's None where a string or an exception may stand
None == "<None>"

\* a bound: the longest response (tasks, events) the services return
MaxItems == 1

\* `not value` for an Optional[str]
Falsy(value) == value = None \/ value = ""

\* a key that a JSON object does not have (None is the key holding null)
Absent == "<absent>"

\* dict.get(key, default): the default stands in for an absent key only
Get(value, default) == IF value = Absent THEN default ELSE value

SeqsUpTo(S, n) == UNION {[1..k -> S] : k \in 0..n}

\* A task object of the Todoist response: its "content" (absent, null or a
\* string) and the "datetime" of its "due" object (None: no due object or no
\* datetime in it).
TodoistTasks ==
    {[content |-> Absent, due_datetime |-> None],
     [content |-> None, due_datetime |-> "2024-05-01T09:30:00"],
     [content |-> "Buy milk", due_datetime |-> None],
     [content |-> "Buy milk", due_datetime |-> "tomorrow"]}

\* What the service answers: no connection, a non-2xx status, a JSON body
\* that is no array of objects, or an array of task objects.  A body that is
\* no array of objects is one of three kinds, by what `for item in data` and
\* `item.get` do with it:
\*   ItemsWithoutGet  it iterates and its first item has no .get
\*                    ({"error": "x"}, [5], ["x"], "abc")
\*   NotIterable      it does not iterate (null, 5, true)
\*   EmptyIterable    it iterates over nothing ({}, "")
TodoistResponses ==
    [kind : {"ConnectionError", "HTTPError",
             "ItemsWithoutGet", "NotIterable", "EmptyIterable"}, data : {<<>>}]
        \cup [kind : {"tasks"}, data : SeqsUpTo(TodoistTasks, MaxItems)]

\* datetime.fromisoformat(value).strftime("%H:%M"), or None where
\* fromisoformat raises ValueError
IsoToHHMM(value) ==
    IF value = "2024-05-01T09:30:00" THEN "09:30" ELSE None

TodoItem(content, due) == [content |-> content, due |-> due]

FetchResult(raised, items, requests) ==
    [called |-> TRUE, raised |-> raised, items |-> items, requests |-> requests]

NotFetched == [called |-> FALSE, raised |-> None, items |-> <<>>, requests |-> 0]

\* the loop of TodoistClient.fetch_today over the response's tasks
TodoistItems(data) ==
    [i \in 1..Len(data) |->
        TodoItem(Get(data[i].content, ""),
                 IF data[i].due_datetime = None THEN None
                 ELSE IsoToHHMM(data[i].due_datetime))]

\* fetch_today that asks the service whenever the token is not None
TodoistFetchToday_NoneOnly(tok, response) ==
    IF tok = None
    THEN FetchResult(None, <<TodoItem("TODOIST_API_TOKEN nicht gesetzt", None)>>, 0)
    ELSE FetchResult(IF response.kind \in {"ConnectionError", "HTTPError"}
                     THEN "RequestException" ELSE None,
                     IF response.kind = "tasks" THEN TodoistItems(response.data) ELSE <<>>,
                     1)

\* TodoistClient.fetch_today: what it returns or raises, and the requests sent
TodoistFetchToday(tok, response) ==
    IF Falsy(tok)
    THEN FetchResult(None, <<TodoItem("TODOIST_API_TOKEN nicht gesetzt", None)>>, 0)
    ELSE IF response.kind \in {"ConnectionError", "HTTPError"}
    THEN FetchResult("RequestException", <<>>, 1)
    ELSE IF response.kind = "ItemsWithoutGet"
    THEN FetchResult("AttributeError", <<>>, 1)
    ELSE IF response.kind = "NotIterable"
    THEN FetchResult("TypeError", <<>>, 1)
    ELSE IF response.kind = "EmptyIterable"
    THEN FetchResult(None, <<>>, 1)
    ELSE IF \E i \in 1..Len(response.data) :
                /\ response.data[i].due_datetime # None
                /\ IsoToHHMM(response.data[i].due_datetime) = None
    THEN FetchResult("ValueError", <<>>, 1)
    ELSE FetchResult(None, TodoistItems(response.data), 1)

\* An event of the Calendar response: its summary (absent, null or a string)
\* and the shapes of its start and end: absent, an all-day date, a date-time
\* with or without offset; date_min is the all-day date 0001-01-01 and
\* datetime_max the date-time 9999-12-31T23:30:00+00:00.
IsoShapes == {"absent", "date", "date_min", "datetime_offset", "datetime_max",
              "datetime_naive"}

CalendarItems ==
    {[summary |-> Absent, start |-> "date", end |-> "date"],
     [summary |-> None, start |-> "datetime_offset", end |-> "datetime_offset"],
     [summary |-> "Standup", start |-> "datetime_offset", end |-> "datetime_offset"],
     [summary |-> "Standup", start |-> "datetime_naive", end |-> "datetime_naive"],
     [summary |-> "Standup", start |-> "datetime_offset", end |-> "absent"],
     [summary |-> "Standup", start |-> "date_min", end |-> "datetime_max"]}

CalendarResponses ==
    [kind : {"CredentialsError", "HttpError"}, items : {<<>>}]
        \cup [kind : {"events"}, items : SeqsUpTo(CalendarItems, MaxItems)]

\* `"T" in value` for the shapes of a start or end string
HasT(shape) == shape \in {"datetime_offset", "datetime_max", "datetime_naive"}

\* A datetime: where it lies in datetime's range (at its first day, at its
\* last day, between them, or at the time of the call) and its time zone
\* (None: naive).
DateTime(at, tz) == [at |-> at, tz |-> tz]

\* GoogleCalendarClient._parse_iso_time: the datetime it returns, or the
\* exception raised (ZoneInfo is not among the module's imports)
ParseIsoTime(shape) ==
    IF HasT(shape)
    THEN IF shape = "datetime_naive"
         THEN [raised |-> "NameError", value |-> DateTime("between", None)]
         ELSE [raised |-> None,
               value |-> DateTime(IF shape = "datetime_max" THEN "last_day" ELSE "between",
                                  "offset")]
    ELSE [raised |-> None,
          value |-> DateTime(IF shape = "date_min" THEN "first_day" ELSE "between",
                             "+00:00")]

CalendarEvent(summary, start, end) == [summary |-> summary, start |-> start, end |-> end]

RECURSIVE ParsedEvents(_)
\* the loop of GoogleCalendarClient.fetch_today over the response's events
ParsedEvents(items) ==
    IF items = <<>> THEN <<>>
    ELSE LET event == Head(items)
         IN  IF event.start = "absent" \/ event.end = "absent"
             THEN ParsedEvents(Tail(items))
             ELSE <<CalendarEvent(Get(event.summary, "Ohne Titel"),
                                  ParseIsoTime(event.start).value,
                                  ParseIsoTime(event.end).value)>>
                  \o ParsedEvents(Tail(items))

ParseRaises(items) ==
    \E i \in 1..Len(items) :
        /\ items[i].start # "absent"
        /\ items[i].end # "absent"
        /\ \/ ParseIsoTime(items[i].start).raised # None
           \/ ParseIsoTime(items[i].end).raised # None

\* starts at datetime.now(timezone.utc) and ends one hour later
PlaceholderEvent(summary) ==
    CalendarEvent(summary, DateTime("now", "+00:00"), DateTime("now_plus_1h", "+00:00"))

\* GoogleCalendarClient.fetch_today
CalendarFetchToday(available, credentials, calendar, response) ==
    IF ~available
    THEN FetchResult(None, <<PlaceholderEvent("Google API Bibliothek nicht installiert")>>, 0)
    ELSE IF Falsy(credentials) \/ Falsy(calendar)
    THEN FetchResult(None,
             <<PlaceholderEvent("GOOGLE_SERVICE_ACCOUNT_FILE oder GOOGLE_CALENDAR_ID fehlt")>>, 0)
    ELSE IF response.kind = "CredentialsError"
    THEN FetchResult("CredentialsError", <<>>, 0)
    ELSE IF response.kind = "HttpError"
    THEN FetchResult("HttpError", <<>>, 1)
    ELSE IF ParseRaises(response.items)
    THEN FetchResult("NameError", <<>>, 1)
    ELSE FetchResult(None, ParsedEvents(response.items), 1)

Row(kind, text, detail) == [kind |-> kind, text |-> text, detail |-> detail]

\* DashboardWindow._load_todoist: the rows of todo_list after it, and the
\* exception it lets through
LoadTodoist(fetch) ==
    IF fetch.raised = "RequestException"
    THEN [rows |-> <<Row("error", "Todoist Fehler: ", fetch.raised)>>, escaped |-> None]
    ELSE IF fetch.raised # None
    THEN [rows |-> <<>>, escaped |-> fetch.raised]
    ELSE [rows |-> [i \in 1..Len(fetch.items) |->
                       Row("task", fetch.items[i].content, fetch.items[i].due)],
          escaped |-> None]

\* The local time zone of the process: UTC, west or east of it.
LocalZones == {"UTC", "west", "east"}

\* dt.astimezone() raises OverflowError where the local time of dt lies
\* outside datetime's range: before year 1 or after year 9999.
AstimezoneRaises(dt, zone) ==
    \/ dt.at = "first_day" /\ zone = "west"
    \/ dt.at = "last_day" /\ zone = "east"

\* DashboardWindow._load_calendar: the rows of calendar_list after it, and the
\* exception it lets through; the loop over the events is outside the try and
\* stops at the first event whose start or end astimezone() rejects
LoadCalendar(fetch, zone) ==
    IF fetch.raised # None
    THEN [rows |-> <<Row("error", "Kalender Fehler: ", fetch.raised)>>, escaped |-> None]
    ELSE LET Rejected(i) == \/ AstimezoneRaises(fetch.items[i].start, zone)
                            \/ AstimezoneRaises(fetch.items[i].end, zone)
             shown == {i \in 1..Len(fetch.items) : \A j \in 1..i : ~Rejected(j)}
         IN  [rows |-> [i \in 1..Cardinality(shown) |->
                           Row("event", fetch.items[i].summary,
                               <<fetch.items[i].start, fetch.items[i].end>>)],
              escaped |-> IF \E i \in 1..Len(fetch.items) : Rejected(i)
                          THEN "OverflowError" ELSE None]

\* DashboardWindow.refresh_data, with what the two services answer this cycle
refresh_data(todoResponse, calResponse) ==
    LET tf == TodoistFetchToday(token, todoResponse)
        tl == LoadTodoist(tf)
        cf == CalendarFetchToday(api_available, credentials_file, calendar_id, calResponse)
        cl == LoadCalendar(cf, local_zone)
    IN  /\ todoFetch' = tf
        /\ todo_list' = tl.rows
        /\ IF tl.escaped # None
           THEN /\ escaped' = tl.escaped
                /\ calLoaded' = FALSE
                /\ UNCHANGED <<calFetch, calendar_list>>
           ELSE /\ calFetch' = cf
                /\ calendar_list' = cl.rows
                /\ calLoaded' = TRUE
                /\ escaped' = cl.escaped

\* The refresh timer (or the constructor) runs a refresh cycle.
RefreshData ==
    /\ escaped = None
    /\ \E todoResponse \in TodoistResponses, calResponse \in CalendarResponses :
          refresh_data(todoResponse, calResponse)
    /\ UNCHANGED feedConfig
    /\ UNCHANGED <<alarmVars, favVars>>

\* The configuration the process starts with, before the first refresh.
FeedInit ==
    /\ token \in {None, "", "secret"}
    /\ api_available \in BOOLEAN
    /\ credentials_file \in {None, "", "sa.json"}
    /\ calendar_id \in {None, "", "primary"}
    /\ local_zone \in LocalZones
    /\ todo_list = <<>>
    /\ calendar_list = <<>>
    /\ todoFetch = NotFetched
    /\ calFetch = NotFetched
    /\ calLoaded = FALSE
    /\ escaped = None

----------------------------------------------------------------------------
\* The favorites store.

\* Strings are sequences of characters; an Optional[str] says whether it is one.
NoStr == [some |-> FALSE, str |-> <<>>]
Str(chars) == [some |-> TRUE, str |-> chars]

DigitChars == <<"0", "1", "2", "3", "4", "5", "6", "7", "8", "9">>
IsDigit(c) == \E n \in 1..10 : DigitChars[n] = c
DigitValue(c) == (CHOOSE n \in 1..10 : DigitChars[n] = c) - 1

\* A QTime; QTime() and every out-of-range time is invalid.
QTime(h, m, sec) == [hour |-> h, minute |-> m, second |-> sec]
IsValid(t) == t.hour \in 0..23 /\ t.minute \in 0..59 /\ t.second \in 0..59
\* Python's None where get_favorite returns an Optional[QTime]
NoQTime == QTime(-1, -1, -1)

\* value.toString("HH:mm") with the hour not padded to two digits
toString_NoPad(t) ==
    IF ~IsValid(t) THEN <<>>
    ELSE (IF t.hour < 10 THEN <<DigitChars[t.hour + 1]>>
          ELSE <<DigitChars[(t.hour \div 10) + 1], DigitChars[(t.hour % 10) + 1]>>)
         \o <<":", DigitChars[(t.minute \div 10) + 1], DigitChars[(t.minute % 10) + 1]>>

\* QTime.toString("HH:mm"): the empty string for an invalid time
toString(t) ==
    IF ~IsValid(t) THEN <<>>
    ELSE <<DigitChars[(t.hour \div 10) + 1], DigitChars[(t.hour % 10) + 1], ":",
           DigitChars[(t.minute \div 10) + 1], DigitChars[(t.minute % 10) + 1]>>

\* QTime.fromString(value, "HH:mm"): an invalid time for what does not parse
fromString(chars) ==
    IF /\ Len(chars) = 5
       /\ chars[3] = ":"
       /\ \A i \in {1, 2, 4, 5} : IsDigit(chars[i])
    THEN LET h == 10 * DigitValue(chars[1]) + DigitValue(chars[2])
             m == 10 * DigitValue(chars[4]) + DigitValue(chars[5])
         IN  IF h <= 23 /\ m <= 59 THEN QTime(h, m, 0) ELSE NoQTime
    ELSE NoQTime

\* JSON values: an entry of a list, the value under "favorites", a document.
JNull == [t |-> "null", s |-> <<>>]
JNumber == [t |-> "number", s |-> <<>>]
\* an integer of more digits than int() converts (4300 by default)
JBigNumber == [t |-> "bignumber", s |-> <<>>]
JString(chars) == [t |-> "string", s |-> chars]

FavValue(t, chars, items, keys) == [t |-> t, s |-> chars, items |-> items, keys |-> keys]
FavArray(items) == FavValue("array", <<>>, items, 0)
NoFav == FavValue("null", <<>>, <<>>, 0)

Doc(t, hasFav, fav) == [t |-> t, hasFav |-> hasFav, fav |-> fav]
FavDoc(fav) == Doc("object", TRUE, fav)

MissingFile == [kind |-> "missing", doc |-> Doc("invalid", FALSE, NoFav)]
TextFile(doc) == [kind |-> "text", doc |-> doc]

\* No file, and no directory to hold one: `path.parent.mkdir(parents=True,
\* exist_ok=True)` raises an OSError (FileExistsError where the parent is a
\* regular file, PermissionError where it cannot be created).
NoDirectory == [kind |-> "no_directory", doc |-> Doc("invalid", FALSE, NoFav)]

\* A file in a directory the process may not search: `self.path.exists()`
\* raises PermissionError, outside the try of _load.
NoSearchPermission ==
    [kind |-> "no_search_permission", doc |-> Doc("invalid", FALSE, NoFav)]

\* A file the process may not read (read_text raises PermissionError): what
\* was written to it cannot be told from here.
UnreadableFile == [kind |-> "unreadable", doc |-> Doc("invalid", FALSE, NoFav)]

\* A path that takes every write and reads as empty, such as a symbolic link
\* to /dev/null.
Sink == [kind |-> "sink", doc |-> Doc("invalid", FALSE, NoFav)]

\* What write_text leaves of a file whose write failed after open() truncated
\* it: nothing, or a proper prefix of the JSON text, which is no JSON.
TruncatedFile == TextFile(Doc("invalid", FALSE, NoFav))

\* json.dumps({"favorites": self.favorites})
Dumps(favs) ==
    FavDoc(FavArray([i \in 1..2 |->
        IF favs[i].some THEN JString(favs[i].str) ELSE JNull]))

\* The stores a process may find at startup: no file, a file that cannot be
\* reached, read or decoded, text that is not JSON (the empty file among it),
\* text nested deeper than the decoder recurses (too_deep), JSON that is no
\* object, an object without or with a "favorites" of any type.
InitialStores ==
    {MissingFile, NoDirectory, NoSearchPermission, UnreadableFile, Sink,
     [kind |-> "undecodable", doc |-> Doc("invalid", FALSE, NoFav)]}
    \cup {TextFile(Doc(t, FALSE, NoFav)) :
              t \in {"invalid", "too_deep", "null", "number", "bignumber", "string",
                     "array", "object"}}
    \cup {TextFile(FavDoc(fav)) : fav \in
              {NoFav,
               FavValue("number", <<>>, <<>>, 0),
               FavValue("string", <<"a", "b">>, <<>>, 0),
               FavValue("object", <<>>, <<>>, 0),
               FavValue("object", <<>>, <<>>, 1),
               FavArray(<<>>),
               FavArray(<<JNumber>>),
               FavArray(<<JBigNumber>>),
               FavArray(<<JString(<<"0", "6", ":", "4", "5">>), JBigNumber>>),
               FavArray(<<JNumber, JNull>>),
               FavArray(<<JString(<<"0", "6", ":", "4", "5">>)>>),
               FavArray(<<JNumber, JString(<<"0", "6", ":", "4", "5">>)>>),
               FavArray(<<JString(<<"0", "7", ":", "0", "0">>), JNull, JNumber>>),
               FavArray(<<JString(<<"9", "9", ":", "9", "9">>), JString(<<>>)>>)}}

Loaded(raised, favs) == [raised |-> raised, favorites |-> favs]

\* the loop of _load over a list or a string under "favorites"
LoadedSlots(fav) ==
    [i \in 1..2 |->
        IF fav.t = "string"
        THEN IF i <= Len(fav.s) THEN Str(<<fav.s[i]>>) ELSE NoStr
        ELSE IF i <= Len(fav.items) /\ fav.items[i].t = "string"
             THEN Str(fav.items[i].s)
             ELSE NoStr]

\* json.loads meets an integer it does not convert, anywhere in the document
HasBigNumber(doc) ==
    \/ doc.t = "bignumber"
    \/ /\ doc.hasFav
       /\ \/ doc.fav.t = "bignumber"
          \/ \E i \in 1..Len(doc.fav.items) : doc.fav.items[i].t = "bignumber"

\* AlarmFavorites.__init__ and _load: the favorites after it, or the
\* exception that leaves __init__: the OSError of mkdir or of exists(), which
\* nothing catches, or one that `except (OSError, json.JSONDecodeError)` lets
\* through
Load(file) ==
    IF file.kind = "no_directory" THEN Loaded("OSError", <<NoStr, NoStr>>)
    ELSE IF file.kind = "no_search_permission"
    THEN Loaded("PermissionError", <<NoStr, NoStr>>)
    ELSE IF file.kind = "missing" THEN Loaded(None, <<NoStr, NoStr>>)
    ELSE IF file.kind = "unreadable" THEN Loaded(None, <<NoStr, NoStr>>)
    ELSE IF file.kind = "sink" THEN Loaded(None, <<NoStr, NoStr>>)
    ELSE IF file.kind = "undecodable" THEN Loaded("UnicodeDecodeError", <<NoStr, NoStr>>)
    ELSE IF file.doc.t = "invalid" THEN Loaded(None, <<NoStr, NoStr>>)
    ELSE IF file.doc.t = "too_deep" THEN Loaded("RecursionError", <<NoStr, NoStr>>)
    ELSE IF HasBigNumber(file.doc) THEN Loaded("ValueError", <<NoStr, NoStr>>)
    ELSE IF file.doc.t # "object" THEN Loaded("AttributeError", <<NoStr, NoStr>>)
    ELSE IF ~file.doc.hasFav THEN Loaded(None, <<NoStr, NoStr>>)
    ELSE IF file.doc.fav.t \in {"null", "number"} THEN Loaded("TypeError", <<NoStr, NoStr>>)
    ELSE IF file.doc.fav.t = "object"
    THEN IF file.doc.fav.keys = 0 THEN Loaded(None, <<NoStr, NoStr>>)
         ELSE Loaded("KeyError", <<NoStr, NoStr>>)
    ELSE Loaded(None, LoadedSlots(file.doc.fav))

\* AlarmFavorites.get_favorite
get_favorite(favs, index) ==
    IF index \notin {0, 1} THEN NoQTime
    ELSE LET value == favs[index + 1]
         IN  IF ~value.some \/ value.str = <<>> THEN NoQTime
             ELSE fromString(value.str)

\* How write_text ends, and whether the process may read the file it opened.
\* write: the text is written; open() raises an OSError (open_failed) and the
\* file is as before; or the write raises one after open() truncated the file
\* (write_failed).
Outcome(write, readable) == [write |-> write, readable |-> readable]

\* The ways write_text can end on a store.  Without a directory, or one that
\* can be searched, only open() can fail.  A file that exists keeps its mode:
\* a readable one stays readable, a write-only one unreadable.  A file that
\* open() creates gets the mode the umask leaves it, readable or not.
WriteOutcomes(file) ==
    LET unopened == {Outcome("open_failed", FALSE)}
        Opened(R) == [write : {"written", "write_failed"}, readable : R]
    IN  IF file.kind \in {"no_directory", "no_search_permission"} THEN unopened
        ELSE IF file.kind = "sink" THEN {Outcome("written", TRUE)}
        ELSE IF file.kind = "unreadable" THEN unopened \cup Opened({FALSE})
        ELSE IF file.kind = "missing" THEN unopened \cup Opened(BOOLEAN)
        ELSE unopened \cup Opened({TRUE})

\* The store after `self.path.write_text(json.dumps(payload, indent=2))`
AfterWrite(file, outcome, doc) ==
    IF outcome.write = "open_failed" THEN file
    ELSE IF file.kind = "sink" THEN Sink
    ELSE IF ~outcome.readable THEN UnreadableFile
    ELSE IF outcome.write = "write_failed" THEN TruncatedFile
    ELSE TextFile(doc)

\* AlarmFavorites.set_favorite and _save, which swallows the OSError
set_favorite(index, value, outcome) ==
    IF index \notin {0, 1}
    THEN UNCHANGED <<favorites, fav_file>>
    ELSE /\ favorites' = [favorites EXCEPT ![index + 1] = Str(toString(value))]
         /\ fav_file' = AfterWrite(fav_file, outcome, Dumps(favorites'))

\* the times and indexes the dashboard is driven with
SampleTimes == {QTime(0, 0, 0), QTime(6, 45, 30), QTime(23, 59, 59), QTime(-1, -1, -1)}
SampleIndexes == {-1, 0, 1, 2}

\* The process starts: AlarmFavorites() loads the store.
Startup ==
    /\ favRaised' = Load(fav_file).raised
    /\ favorites' = Load(fav_file).favorites
    /\ favOp' = "startup"
    /\ reloaded' = (favOp = "set_favorite" /\ setSaved)
    /\ UNCHANGED <<fav_file, setIdx, setTime, setSaved, setOther>>
    /\ UNCHANGED <<alarmVars, feedVars>>

\* The user saves the edited time as a favorite (DashboardWindow._save_favorite).
SetFavorite ==
    /\ favOp # "none"
    /\ favRaised = None
    /\ \E index \in SampleIndexes, value \in SampleTimes,
          outcome \in WriteOutcomes(fav_file) :
          /\ set_favorite(index, value, outcome)
          /\ setIdx' = index
          /\ setTime' = value
          /\ setSaved' = (outcome.write = "written" /\ index \in {0, 1})
          /\ setOther' = get_favorite(favorites, 1 - index)
    /\ favOp' = "set_favorite"
    /\ reloaded' = FALSE
    /\ UNCHANGED favRaised
    /\ UNCHANGED <<alarmVars, feedVars>>

\* Before the process starts, over a store in the given state.
FavInit(file) ==
    /\ fav_file = file
    /\ favorites = <<NoStr, NoStr>>
    /\ favRaised = None
    /\ favOp = "none"
    /\ setIdx = -1
    /\ setTime = NoQTime
    /\ setSaved = FALSE
    /\ setOther = NoQTime
    /\ reloaded = FALSE

FavSpecInit ==
    /\ AlarmInit
    /\ FeedInit
    /\ token = None
    /\ api_available = FALSE
    /\ credentials_file = None
    /\ calendar_id = None
    /\ local_zone = "UTC"
    /\ \E file \in InitialStores : FavInit(file)

FavNext == Startup \/ SetFavorite

FavSpec == FavSpecInit /\ [][FavNext]_vars

\* A started dashboard before its first refresh cycle.
FeedSpecInit ==
    /\ FeedInit
    /\ AlarmInit
    /\ FavInit(MissingFile)

FeedSpec == FeedSpecInit /\ [][RefreshData]_vars

----------------------------------------------------------------------------
\* The alarm controller under a dashboard whose feeds are not configured.
Init ==
    /\ AlarmInit
    /\ FeedInit
    /\ token = None
    /\ api_available = FALSE
    /\ credentials_file = None
    /\ calendar_id = None
    /\ local_zone = "UTC"
    /\ FavInit(MissingFile)

Next ==
    \/ SetAlarm
    \/ ClearAlarm
    \/ CheckAlarm
    \/ StopAlarm
    \/ Timeout
    \/ Tick

Spec == Init /\ [][Next]_vars

\* The event loop keeps running: time passes and a due timer is served.
FairSpec == Spec /\ WF_vars(Tick) /\ WF_vars(Timeout)

----------------------------------------------------------------------------
\* The controller states of the specification's state machine.
Idle == active_time = NoTime
Triggered == active_time # NoTime /\ alarm_active /\ gpio_state = 1
ArmedButFired == active_time # NoTime /\ alarm_active /\ gpio_state = 0

\* C1: per arming the controller fires exactly once: at most one pin-active
\* write and as many alarm_triggered notifications since the last set_alarm,
\* alarm_active is true exactly when that one fire has happened, and a
\* check_alarm call in the armed minute leaves the alarm fired without a
\* second pin-active write.
C1_FiresOncePerArming ==
    /\ pinHighWrites <= 1
    /\ emitted = pinHighWrites
    /\ (active_time # NoTime => (alarm_active <=> pinHighWrites = 1))
    /\ (op = "check_alarm" /\ matched => alarm_active /\ pinHighWrites = 1)

\* a later check_alarm in the armed minute, seconds after the fire
C1_Witness ==
    /\ op = "check_alarm" /\ matched
    /\ alarm_active /\ pinHighWrites = 1
    /\ Len(timers) = 1 /\ timers[1] < DwellTicks

\* C2: clear_alarm is enabled in every reachable state and ends with
\* active_time absent, alarm_active false and the pin inactive.
C2_ClearAlarmLandsIdle ==
    /\ ENABLED ClearAlarm
    /\ (op = "clear_alarm" => Idle /\ ~alarm_active /\ gpio_state = 0)

\* clear_alarm ran while the alarm was sounding and its stop timer pending
C2_Witness ==
    /\ op = "clear_alarm"
    /\ pinHighWrites = 1
    /\ timers # <<>> /\ timers[Len(timers)] > 0

\* C3: alarm_active is true only if active_time is present.
C3_ActiveOnlyWhileArmed == alarm_active => active_time # NoTime

\* the alarm has fired and been stopped, its time still armed
C3_Witness == ArmedButFired /\ timers = <<>> /\ op = "timeout"

\* C4: stop_alarm, called directly or by the dwell timer, leaves active_time
\* and alarm_active unchanged and writes the pin inactive; so once fired and
\* stopped, a check_alarm call does not fire again.
C4_StopOnlyWritesPin ==
    [][ /\ (op' \in {"stop_alarm", "timeout"} =>
               /\ active_time' = active_time
               /\ alarm_active' = alarm_active
               /\ gpio_state' = 0)
        /\ (ArmedButFired /\ op' = "check_alarm" =>
               /\ gpio_state' = 0
               /\ pinHighWrites' = pinHighWrites) ]_vars

\* fired, stopped, and then checked again in the armed minute
C4_Witness ==
    /\ op = "check_alarm" /\ matched
    /\ ArmedButFired
    /\ pinHighWrites = 1

\* C5: while the dwell of the latest fire is running and the user has called
\* neither clear_alarm nor stop_alarm since that fire, the pin is active.
C5_DwellHolds ==
    (timers # <<>> /\ timers[Len(timers)] > 0 /\ ~userStop) => gpio_state = 1

\* C6: every fire is eventually followed by an automatic stop that writes the
\* pin inactive, and with no user action since the fire that stop leaves the
\* controller armed-but-fired.
C6_AutoStopFollows ==
    /\ (op = "check_alarm" /\ timers # <<>> /\ timers[Len(timers)] = DwellTicks)
          ~> (op = "timeout" /\ gpio_state = 0)
    /\ [](op = "timeout" /\ ~userAny => ArmedButFired)

\* the dwell timer of the only fire has stopped the alarm, the user absent
C6_Witness ==
    /\ op = "timeout" /\ ~userAny
    /\ ArmedButFired /\ timers = <<>>

----------------------------------------------------------------------------
\* C7: with the configuration missing (token empty or None; library,
\* credentials file or calendar id absent) fetch_today returns exactly one
\* placeholder record naming the missing item, sends no request and raises
\* nothing.
C7_MissingConfigPlaceholder ==
    /\ (todoFetch.called /\ Falsy(token) =>
            /\ todoFetch.raised = None
            /\ todoFetch.requests = 0
            /\ Len(todoFetch.items) = 1
            /\ todoFetch.items[1].content = "TODOIST_API_TOKEN nicht gesetzt")
    /\ (calFetch.called /\ ~api_available =>
            /\ calFetch.raised = None
            /\ calFetch.requests = 0
            /\ Len(calFetch.items) = 1
            /\ calFetch.items[1].summary = "Google API Bibliothek nicht installiert")
    /\ (calFetch.called /\ api_available
           /\ (Falsy(credentials_file) \/ Falsy(calendar_id)) =>
            /\ calFetch.raised = None
            /\ calFetch.requests = 0
            /\ Len(calFetch.items) = 1
            /\ calFetch.items[1].summary
                  = "GOOGLE_SERVICE_ACCOUNT_FILE oder GOOGLE_CALENDAR_ID fehlt")

\* both clients were asked: the token is the empty string, the calendar id None
C7_Witness ==
    /\ todoFetch.called /\ token = ""
    /\ calFetch.called /\ api_available
    /\ credentials_file = "sa.json" /\ calendar_id = None

\* C8: a failure while fetching one feed leaves exactly one error row in that
\* feed's list, the other feed's list is rebuilt in the same cycle, and the
\* failure does not leave refresh_data.
C8_FailureContained ==
    /\ escaped = None
    /\ (todoFetch.called /\ todoFetch.raised # None =>
            /\ Len(todo_list) = 1 /\ todo_list[1].kind = "error"
            /\ calLoaded)
    /\ (calLoaded /\ calFetch.raised # None =>
            /\ Len(calendar_list) = 1 /\ calendar_list[1].kind = "error"
            /\ todoFetch.called)

\* A store with nothing to load: no file, or no entry under "favorites".
EmptyStore(file) ==
    \/ file.kind = "missing"
    \/ /\ file.kind = "text" /\ file.doc.t = "object"
       /\ \/ ~file.doc.hasFav
          \/ file.doc.fav.t = "array" /\ file.doc.fav.items = <<>>

\* A store that is unreadable or corrupt: a file that cannot be reached or
\* read, undecodable bytes, text that is not JSON (or none at all), JSON that is no object,
\* "favorites" that is no list, or a list without a string in it.
CorruptStore(file) ==
    \/ file.kind \in {"no_search_permission", "unreadable", "undecodable", "sink"}
    \/ /\ file.kind = "text"
       /\ \/ file.doc.t # "object"
          \/ file.doc.hasFav /\ file.doc.fav.t # "array"
          \/ /\ file.doc.hasFav /\ file.doc.fav.t = "array"
             /\ file.doc.fav.items # <<>>
             /\ \A i \in 1..Len(file.doc.fav.items) : file.doc.fav.items[i].t # "string"

\* C9: loading an empty, unreadable or corrupt store raises nothing and
\* leaves both slots absent.
C9_CorruptStoreLoadsEmpty ==
    (favOp = "startup" /\ (EmptyStore(fav_file) \/ CorruptStore(fav_file))) =>
        /\ favRaised = None
        /\ get_favorite(favorites, 0) = NoQTime
        /\ get_favorite(favorites, 1) = NoQTime

\* C10 as stated: a valid time saved in slot i by a set_favorite whose write
\* raised nothing is, after a reload by a fresh AlarmFavorites, what
\* get_favorite(i) returns (its hour and minute), with the other slot as
\* before; set_favorite with an index other than 0 and 1 changes neither the
\* favorites nor the store.
C10_RoundTripAnyStore ==
    [][ /\ (favOp' = "startup" /\ reloaded' /\ IsValid(setTime) =>
               /\ favRaised' = None
               /\ get_favorite(favorites', setIdx).hour = setTime.hour
               /\ get_favorite(favorites', setIdx).minute = setTime.minute
               /\ get_favorite(favorites', 1 - setIdx) = setOther)
        /\ (favOp' = "set_favorite" /\ setIdx' \notin {0, 1} =>
               UNCHANGED <<favorites, fav_file>>) ]_vars

\* C10, amended: the round trip of C10 holds where the store that was written
\* is a regular file the reloading process may read (not a write-only file,
\* not a path that discards what is written); set_favorite with an index
\* other than 0 and 1 changes neither the favorites nor the store.
C10_FavoritesRoundTrip ==
    [][ /\ (favOp' = "startup" /\ reloaded' /\ IsValid(setTime)
               /\ fav_file'.kind = "text" =>
               /\ favRaised' = None
               /\ get_favorite(favorites', setIdx).hour = setTime.hour
               /\ get_favorite(favorites', setIdx).minute = setTime.minute
               /\ get_favorite(favorites', 1 - setIdx) = setOther)
        /\ (favOp' = "set_favorite" /\ setIdx' \notin {0, 1} =>
               UNCHANGED <<favorites, fav_file>>) ]_vars

\* 06:45:30 saved in slot 0 and reloaded, slot 1 holding a time
C10_Witness ==
    /\ favOp = "startup" /\ reloaded
    /\ fav_file.kind = "text"
    /\ setIdx = 0 /\ setTime = QTime(6, 45, 30)
    /\ setOther # NoQTime
    /\ get_favorite(favorites, 0) = QTime(6, 45, 0)

\* C11: every start or end string _parse_iso_time handles yields a
\* timezone-aware timestamp and no error: no fetch ends in the NameError of
\* the parse, and every event fetched carries a time zone at both ends.
C11_ParseIsoTimeAware ==
    calFetch.called =>
        /\ calFetch.raised # "NameError"
        /\ \A i \in 1..Len(calFetch.items) :
              /\ calFetch.items[i].start.tz # None
              /\ calFetch.items[i].end.tz # None

\* C12: the pin's last-written level is active only while alarm_active is
\* true.
C12_PinActiveOnlyWhileActive == gpio_state = 1 => alarm_active

====
